---------------------------- MODULE Spec2Model ----------------------------
(***************************************************************************)
(* Model of augraphy's paper-texture engine:                               *)
(*   augraphy/base/paperfactory.py       (PaperFactory)                    *)
(*   augraphy/utilities/texturegenerator.py (TextureGenerator)             *)
(*                                                                         *)
(* A texture is a record [h, w, ch, src]: height, width, channel count     *)
(* (1 = a 2-D array, 3 = BGR) and the identity of the pixel content it     *)
(* was taken from.  Every routine has its own call frame variable (tg is   *)
(* the frame of the texture synthesis routines); each specification        *)
(* below drives one routine and leaves the others idle.                    *)
(***************************************************************************)
EXTENDS Integers, Sequences, FiniteSets, TLC

VARIABLES rz, ed, gp, qt, pf, tg

vars == <<rz, ed, gp, qt, pf, tg>>

Idle == [pc |-> "idle"]

(***************************************************************************)
(* Arithmetic helpers: python floats are modelled as fractions <<n, d>>    *)
(* with d > 0.                                                             *)
(***************************************************************************)
RECURSIVE GCD(_, _)
GCD(a, b) == IF b = 0 THEN a ELSE GCD(b, a % b)

Abs(x) == IF x < 0 THEN -x ELSE x

Frac(n, d) == LET g == GCD(Abs(n), d) IN <<n \div g, d \div g>>

FAdd(p, q) == Frac(p[1] * q[2] + q[1] * p[2], p[2] * q[2])

FSub(p, q) == Frac(p[1] * q[2] - q[1] * p[2], p[2] * q[2])

FMul(p, q) == Frac(p[1] * q[1], p[2] * q[2])

FLess(p, q) == p[1] * q[2] < q[1] * p[2]

FLeq(p, q) == p[1] * q[2] <= q[1] * p[2]

\* The values random.random() is drawn from: 0.0 and 0.5, both doubles in [0, 1).
UnitDraws == {<<0, 1>>, <<1, 2>>}

\* random.uniform(a, b) is a + (b - a) * random.random().
uniform(a, b, u) == FAdd(a, FMul(FSub(b, a), u))

(***************************************************************************)
(* PaperFactory.resize                                                     *)
(***************************************************************************)
\* Largest texture / target width and height of a resize call.
MaxWidth == 15

MaxHeight == 4

\* The operands <<step, x, a, u>> (step 1 = zoom out, 2 = zoom in; a the
\* dominant ratio as a reduced fraction) for which IEEE-754 double arithmetic
\* makes int(x * random.uniform(a, b)) one less than the exact floor: the
\* quotient a = shape / texture is rounded, and the product lands just below
\* an integer.  Enumerated for every call with all four sides up to 16 and
\* for every call the factory below makes on its library textures.
FloatShort ==
    { <<1, 10, 7, 5, <<1, 2>>>>, <<1, 11, 15, 11, <<0, 1>>>>,
      <<1, 13, 15, 13, <<0, 1>>>>, <<1, 15, 8, 3, <<1, 2>>>>,
      <<1, 15, 12, 5, <<1, 2>>>>, <<2, 6, 13, 12, <<1, 2>>>>,
      <<2, 11, 15, 11, <<0, 1>>>>, <<2, 12, 4, 3, <<1, 2>>>>,
      <<2, 12, 8, 3, <<1, 2>>>>, <<2, 12, 11, 3, <<1, 2>>>>,
      <<2, 12, 11, 6, <<1, 2>>>>, <<2, 12, 13, 12, <<1, 2>>>>,
      <<2, 13, 15, 13, <<0, 1>>>>, <<2, 18, 13, 12, <<1, 2>>>>,
      <<2, 22, 15, 11, <<0, 1>>>>, <<2, 24, 4, 3, <<1, 2>>>>,
      <<2, 24, 11, 6, <<1, 2>>>>, <<2, 36, 11, 6, <<1, 2>>>>,
      <<2, 48, 11, 6, <<1, 2>>>> }

\* h_ratio > w_ratio ? h_ratio : w_ratio
dominant_ratio(texture_h, texture_w, shape_h, shape_w) ==
    LET h_ratio == Frac(shape_h, texture_h)
        w_ratio == Frac(shape_w, texture_w)
    IN  IF FLess(w_ratio, h_ratio) THEN h_ratio ELSE w_ratio

\* Upper end of the interval handed to random.uniform in the zoom-out step.
zoom_out_upper(a) == <<6, 5>>

\* Upper end of the interval handed to random.uniform in the zoom-in step.
zoom_in_upper(a) == FAdd(a, <<3, 2>>)

\* int(x * scale), scale = random.uniform(a, b) drawn with random() = u.
int_scaled(step, x, a, b, u) ==
    LET scale == uniform(a, b, u)
    IN  ((x * scale[1]) \div scale[2])
          - (IF <<step, x, a[1], a[2], u>> \in FloatShort THEN 1 ELSE 0)

\* The "Zoom out" block: the texture exceeds the target on some axis.
zoom_out(t, shape_h, shape_w, u) ==
    LET a == dominant_ratio(t.h, t.w, shape_h, shape_w)
        b == zoom_out_upper(a)
    IN  [t EXCEPT !.w = int_scaled(1, t.w, a, b, u),
                  !.h = int_scaled(1, t.h, a, b, u)]

\* The "Zoom in" block: the texture does not exceed the target on some axis.
zoom_in(t, shape_h, shape_w, u) ==
    LET a == dominant_ratio(t.h, t.w, shape_h, shape_w)
        b == zoom_in_upper(a)
    IN  [t EXCEPT !.w = int_scaled(2, t.w, a, b, u),
                  !.h = int_scaled(2, t.h, a, b, u)]

\* resize(texture, shape) with the two random() draws u1, u2.  cv2.resize
\* raises on an empty target size; the result then carries err = TRUE.
resize(texture, shape_h, shape_w, u1, u2) ==
    LET shrink == texture.h > shape_h \/ texture.w > shape_w
        scale1 == IF shrink
                  THEN uniform(dominant_ratio(texture.h, texture.w, shape_h, shape_w),
                               zoom_out_upper(<<1, 1>>), u1)
                  ELSE <<1, 1>>
    IN  CHOOSE r \in
          { CHOOSE r2 \in
              { [texture |-> t2,
                 err |-> t1.h <= 0 \/ t1.w <= 0 \/ t2.h <= 0 \/ t2.w <= 0,
                 zoomed_out |-> shrink,
                 zoomed_in |-> ~(t1.h <= 0 \/ t1.w <= 0)
                                 /\ (t1.h <= shape_h \/ t1.w <= shape_w),
                 scale1 |-> scale1] :
                t2 \in { IF ~(t1.h <= 0 \/ t1.w <= 0)
                            /\ (t1.h <= shape_h \/ t1.w <= shape_w)
                         THEN zoom_in(t1, shape_h, shape_w, u2)
                         ELSE t1 } } : TRUE :
            t1 \in { IF shrink THEN zoom_out(texture, shape_h, shape_w, u1)
                     ELSE texture } } : TRUE

Widths == 1 .. MaxWidth

Heights == 1 .. MaxHeight

ResizeInit ==
    /\ rz \in [pc : {"call"}, texture : [h : Heights, w : Widths, ch : {3}, src : {"lib"}],
               shape_h : Heights, shape_w : Widths]
    /\ ed = Idle /\ gp = Idle /\ qt = Idle /\ pf = Idle /\ tg = Idle

\* One call of PaperFactory.resize.
Resize ==
    /\ rz.pc = "call"
    /\ \E u1 \in UnitDraws, u2 \in UnitDraws :
          LET r == resize(rz.texture, rz.shape_h, rz.shape_w, u1, u2)
          IN  rz' = [pc |-> IF r.err THEN "raised" ELSE "done",
                     texture |-> rz.texture,
                     shape_h |-> rz.shape_h, shape_w |-> rz.shape_w,
                     u1 |-> u1, u2 |-> u2,
                     zoomed_out |-> r.zoomed_out, zoomed_in |-> r.zoomed_in,
                     scale1 |-> r.scale1,
                     out |-> r.texture]
    /\ UNCHANGED <<ed, gp, qt, pf, tg>>

ResizeNext == Resize

SpecResize == ResizeInit /\ [][ResizeNext]_vars

\* C1: every texture resize returns is at least as high and as wide as the
\* target shape, whatever scales random.uniform returned (after int()).
C1_ResizeCoversTarget ==
    rz.pc \in {"done", "raised"} =>
        /\ rz.pc = "done"
        /\ rz.out.h >= rz.shape_h
        /\ rz.out.w >= rz.shape_w

\* C17: in the zoom-out step the scale is sampled between the dominant
\* ratio r and r + 0.2.
C17_ZoomOutScaleInterval ==
    (rz.pc \in {"done", "raised"} /\ rz.zoomed_out) =>
        LET r == dominant_ratio(rz.texture.h, rz.texture.w, rz.shape_h, rz.shape_w)
        IN  FLeq(r, rz.scale1) /\ FLeq(rz.scale1, FAdd(r, <<1, 5>>))

(***************************************************************************)
(* PaperFactory.check_paper_edges                                          *)
(*                                                                         *)
(* The cv2 pipeline (threshold, erode, findContours, contourArea,          *)
(* minAreaRect, boxPoints) is an input: a list of contours, each with the  *)
(* four integer corners of its rotated bounding rectangle.  Areas are kept *)
(* doubled so that they stay integers.                                     *)
(***************************************************************************)
\* Most contours cv2.findContours returns for one texture.
MaxContours == 2

\* Sides of the textures handed to check_paper_edges.
EdgeSides == {10, 12}

\* Twice cv2.contourArea of the polygon through the four corners (shoelace).
contourArea2(box) ==
    Abs(  (box[1][1] * box[2][2] - box[2][1] * box[1][2])
        + (box[2][1] * box[3][2] - box[3][1] * box[2][2])
        + (box[3][1] * box[4][2] - box[4][1] * box[3][2])
        + (box[4][1] * box[1][2] - box[1][1] * box[4][2]))

\* areas[i] >= min_area, with min_area = ysize * xsize * 0.65.
clears_min_area(area2, ysize, xsize) == area2 * 100 >= 2 * ysize * xsize * 65

\* list(np.argsort(areas)) reversed: indices by area, largest first.
area_indexs(areas2) ==
    LET n == Len(areas2)
        before(i, j) == areas2[i] > areas2[j] \/ (areas2[i] = areas2[j] /\ i > j)
        rank(i) == Cardinality({j \in 1 .. n : before(j, i)}) + 1
    IN  [k \in 1 .. n |-> CHOOSE i \in 1 .. n : rank(i) = k]

\* np.sort of four numbers.
sort4(v) ==
    LET rank(i) == Cardinality({j \in 1 .. 4 : v[j] < v[i] \/ (v[j] = v[i] /\ j < i)}) + 1
    IN  [k \in 1 .. 4 |-> v[CHOOSE i \in 1 .. 4 : rank(i) = k]]

\* Length of the slice [lo:hi] of an axis of n cells (lo, hi >= 0).
slice_len(lo, hi, n) ==
    LET l == IF lo > n THEN n ELSE lo
        r == IF hi > n THEN n ELSE hi
    IN  IF r > l THEN r - l ELSE 0

\* A selection that takes the largest contour without the threshold test.
select_largest_contour(areas2, idx, ysize, xsize) == idx[1]

\* The for loop over area_indexs: every branch of its first iteration leaves
\* the loop (return texture, break, or the list ends), so only i = 0 runs.
\* Result: 0 for "return texture", else the index of max_contour.
select_max_contour(areas2, idx, ysize, xsize) ==
    LET i == 1
    IN  IF i = Len(idx)
        THEN IF clears_min_area(areas2[idx[i]], ysize, xsize) THEN idx[i] ELSE 0
        ELSE IF /\ clears_min_area(areas2[idx[i]], ysize, xsize)
                /\ ~clears_min_area(areas2[idx[i + 1]], ysize, xsize)
             THEN idx[i]
             ELSE 0

\* texture[y_top:y_bottom, x_left:x_right] from the inner corner coordinates.
crop_to_box(texture, box) ==
    LET y_list == sort4([k \in 1 .. 4 |-> box[k][2]])
        x_list == sort4([k \in 1 .. 4 |-> box[k][1]])
    IN  [texture EXCEPT !.h = slice_len(y_list[2], y_list[3], texture.h),
                        !.w = slice_len(x_list[2], x_list[3], texture.w)]

\* check_paper_edges(texture), given the contours cv2 found in it.
check_paper_edges(texture, contours) ==
    LET areas2 == [k \in 1 .. Len(contours) |-> contourArea2(contours[k])]
        idx == area_indexs(areas2)
        pick == IF Len(contours) > 0
                THEN select_max_contour(areas2, idx, texture.h, texture.w)
                ELSE 0
    IN  IF pick = 0
        THEN [texture |-> texture, cropped |-> FALSE, max_contour |-> 0]
        ELSE [texture |-> crop_to_box(texture, contours[pick]),
              cropped |-> TRUE, max_contour |-> pick]

\* Corner points <<x, y>> of a bounding rectangle spanning [lo, hi] on each
\* axis, axis-aligned (tilt 0) or slightly rotated (tilt 1).
box_points(xlo, xhi, ylo, yhi, tilt) ==
    << <<xlo + tilt, ylo>>, <<xhi, ylo + tilt>>,
       <<xhi - tilt, yhi>>, <<xlo, yhi - tilt>> >>

\* Extents a contour can span on an axis of n cells: all of it, all but the
\* first cell, or an inner part.
extents(n) == { <<0, n - 1>>, <<1, n - 1>>, <<2, n - 3>> }

contours_of(ysize, xsize) ==
    { box_points(ex[1], ex[2], ey[1], ey[2], tilt) :
        ex \in extents(xsize), ey \in extents(ysize), tilt \in {0, 1} }

\* Lists of distinct contours, in any order.
contour_lists(ysize, xsize) ==
    UNION { { cs \in [1 .. n -> contours_of(ysize, xsize)] :
                \A i, j \in 1 .. n : i # j => cs[i] # cs[j] } : n \in 0 .. MaxContours }

EdgesInit ==
    /\ \E ysize \in EdgeSides, xsize \in EdgeSides :
          \E cs \in contour_lists(ysize, xsize) :
             ed = [pc |-> "call",
                   texture |-> [h |-> ysize, w |-> xsize, ch |-> 3, src |-> "lib"],
                   contours |-> cs]
    /\ rz = Idle /\ gp = Idle /\ qt = Idle /\ pf = Idle /\ tg = Idle

\* One call of PaperFactory.check_paper_edges.
CheckPaperEdges ==
    /\ ed.pc = "call"
    /\ LET r == check_paper_edges(ed.texture, ed.contours)
       IN  ed' = [pc |-> "done", texture |-> ed.texture, contours |-> ed.contours,
                  out |-> r.texture, cropped |-> r.cropped,
                  max_contour |-> r.max_contour]
    /\ UNCHANGED <<rz, gp, qt, pf, tg>>

EdgesNext == CheckPaperEdges

SpecEdges == EdgesInit /\ [][EdgesNext]_vars

\* Doubled areas of the contours of the current call, and the largest one.
EdAreas2 == [k \in 1 .. Len(ed.contours) |-> contourArea2(ed.contours[k])]

EdLargestClears ==
    /\ Len(ed.contours) > 0
    /\ \E k \in 1 .. Len(ed.contours) :
          /\ \A j \in 1 .. Len(ed.contours) : EdAreas2[j] <= EdAreas2[k]
          /\ clears_min_area(EdAreas2[k], ed.texture.h, ed.texture.w)

\* C4: with no contour, or with the largest contour below 65% of the image
\* area, check_paper_edges returns its input texture unmodified.
C4_NoCropBelowThreshold ==
    (ed.pc = "done" /\ ~EdLargestClears) =>
        (ed.out = ed.texture /\ ~ed.cropped)

C4_Witness ==
    /\ ed.pc = "done"
    /\ Len(ed.contours) = 2
    /\ ~EdLargestClears
    /\ ed.out = ed.texture

\* C5: whenever the largest contour clears 65% of the image area the result
\* is the crop to that contour's bounding rectangle, however many other
\* contours there are and whether or not the second largest clears it too.
C5_CropWheneverLargestClears ==
    (ed.pc = "done" /\ EdLargestClears) =>
        /\ ed.cropped
        /\ ed.max_contour \in 1 .. Len(ed.contours)
        /\ \A j \in 1 .. Len(ed.contours) : EdAreas2[j] <= EdAreas2[ed.max_contour]
        /\ ed.out = crop_to_box(ed.texture, ed.contours[ed.max_contour])

(***************************************************************************)
(* TextureGenerator.get_random_patch                                       *)
(*                                                                         *)
(* The source image enters through okLocs: the patch locations <<y, x>>    *)
(* whose mean hue, saturation and value all lie in the target ranges.      *)
(***************************************************************************)
\* The retry limit of the search loop ("while n < 10").
MaxTries == 10

\* Largest patch_size of a get_random_patch call.
MaxPatchTry == 2

\* Largest ysize - patch_size and xsize - patch_size of the source image.
MaxMarginY == 1

MaxMarginX == 2

\* The values np.random.randint(high) can return; it raises when high <= 0.
randint_values(high) == 0 .. (high - 1)

\* The h_mean / s_mean / v_mean test against h_range, s_range and v_range.
in_ranges(okLocs, y, x) == <<y, x>> \in okLocs

\* image_texture[y : y + patch_size, x : x + patch_size], gamma-corrected or not.
patch_at(y, x, patch_size, ysize, xsize, corrected) ==
    [y |-> y, x |-> x,
     h |-> slice_len(y, y + patch_size, ysize),
     w |-> slice_len(x, x + patch_size, xsize),
     corrected |-> corrected]

\* The patch at the location sampled last, uncorrected.
last_sampled_patch(image_patch, y, x, patch_size, ysize, xsize) ==
    patch_at(y, x, patch_size, ysize, xsize, FALSE)

\* The patch returned when the loop ends with n = 10: image_patch still is
\* the one taken before the loop.
exhausted_patch(image_patch, y, x, patch_size, ysize, xsize) == image_patch

PatchInit ==
    /\ \E patch_size \in 1 .. MaxPatchTry, my \in 0 .. MaxMarginY, mx \in 0 .. MaxMarginX :
          \E ok \in SUBSET (randint_values(my) \X randint_values(mx)) :
             gp = [pc |-> "start", patch_size |-> patch_size,
                   ysize |-> patch_size + my, xsize |-> patch_size + mx,
                   okLocs |-> ok, n |-> 0, y |-> 0, x |-> 0,
                   image_patch |-> patch_at(0, 0, 0, 0, 0, FALSE),
                   sampled |-> 0, first |-> <<0, 0>>, passed_over |-> FALSE]
    /\ rz = Idle /\ ed = Idle /\ qt = Idle /\ pf = Idle /\ tg = Idle

\* n = 0 and the draw before the loop; np.random.randint raises ValueError
\* when the source is not larger than the patch.
PatchFirstDraw ==
    /\ gp.pc = "start"
    /\ randint_values(gp.ysize - gp.patch_size) # {}
    /\ randint_values(gp.xsize - gp.patch_size) # {}
    /\ \E y \in randint_values(gp.ysize - gp.patch_size),
          x \in randint_values(gp.xsize - gp.patch_size) :
          gp' = [gp EXCEPT !.pc = "loop", !.n = 0, !.y = y, !.x = x,
                           !.image_patch = patch_at(y, x, gp.patch_size, gp.ysize, gp.xsize, FALSE),
                           !.sampled = 1, !.first = <<y, x>>]
    /\ UNCHANGED <<rz, ed, qt, pf, tg>>

PatchDrawRaises ==
    /\ gp.pc = "start"
    /\ \/ randint_values(gp.ysize - gp.patch_size) = {}
       \/ randint_values(gp.xsize - gp.patch_size) = {}
    /\ gp' = [gp EXCEPT !.pc = "raised"]
    /\ UNCHANGED <<rz, ed, qt, pf, tg>>

\* One loop iteration whose candidate is in the ranges: correct it and break.
PatchAccept ==
    /\ gp.pc = "loop"
    /\ gp.n < MaxTries
    /\ \E y \in randint_values(gp.ysize - gp.patch_size),
          x \in randint_values(gp.xsize - gp.patch_size) :
          /\ in_ranges(gp.okLocs, y, x)
          /\ gp' = [gp EXCEPT !.pc = "done", !.y = y, !.x = x,
                              !.image_patch = patch_at(y, x, gp.patch_size, gp.ysize, gp.xsize, TRUE),
                              !.sampled = @ + 1]
    /\ UNCHANGED <<rz, ed, qt, pf, tg>>

\* One loop iteration whose candidate is outside the ranges: n += 1.
PatchReject ==
    /\ gp.pc = "loop"
    /\ gp.n < MaxTries
    /\ \E y \in randint_values(gp.ysize - gp.patch_size),
          x \in randint_values(gp.xsize - gp.patch_size) :
          /\ ~in_ranges(gp.okLocs, y, x)
          /\ gp' = [gp EXCEPT !.n = @ + 1, !.y = y, !.x = x,
                              !.sampled = @ + 1,
                              !.passed_over = @ \/ <<y, x>> \in gp.okLocs]
    /\ UNCHANGED <<rz, ed, qt, pf, tg>>

\* The loop condition fails: return image_patch.
PatchExhausted ==
    /\ gp.pc = "loop"
    /\ gp.n >= MaxTries
    /\ gp' = [gp EXCEPT !.pc = "done",
                        !.image_patch = exhausted_patch(gp.image_patch, gp.y, gp.x,
                                                        gp.patch_size, gp.ysize, gp.xsize)]
    /\ UNCHANGED <<rz, ed, qt, pf, tg>>

PatchNext ==
    \/ PatchFirstDraw
    \/ PatchDrawRaises
    \/ PatchAccept
    \/ PatchReject
    \/ PatchExhausted

SpecPatch == PatchInit /\ [][PatchNext]_vars

\* C7 as stated: at most 10 locations are sampled; an accepted candidate is
\* the first one in the ranges and is returned gamma-corrected; after 10
\* rejected candidates the uncorrected patch at the last sampled location
\* is returned.
C7_FallbackIsLastSampled ==
    gp.pc = "done" =>
        /\ gp.sampled <= MaxTries
        /\ gp.image_patch.corrected =>
              /\ <<gp.image_patch.y, gp.image_patch.x>> = <<gp.y, gp.x>>
              /\ <<gp.y, gp.x>> \in gp.okLocs
              /\ ~gp.passed_over
        /\ ~gp.image_patch.corrected =>
              /\ gp.n = MaxTries
              /\ <<gp.image_patch.y, gp.image_patch.x>> = <<gp.y, gp.x>>

\* C7 amended: one location is sampled before the loop and at most 10
\* candidates in it; an accepted candidate is the first one in the ranges and
\* is returned gamma-corrected; after 10 rejected candidates the uncorrected
\* patch at the location sampled before the loop is returned; the search
\* raises only at that first draw (source not larger than the patch).
C7_FallbackIsFirstSampled ==
    /\ gp.pc = "raised" => gp.sampled = 0
    /\ gp.pc \in {"loop", "done"} => gp.n <= MaxTries /\ gp.sampled <= MaxTries + 1
    /\ gp.pc = "done" =>
          /\ gp.image_patch.h = gp.patch_size /\ gp.image_patch.w = gp.patch_size
          /\ gp.image_patch.corrected =>
                /\ <<gp.image_patch.y, gp.image_patch.x>> = <<gp.y, gp.x>>
                /\ <<gp.y, gp.x>> \in gp.okLocs
                /\ ~gp.passed_over
                /\ gp.sampled = gp.n + 2
          /\ ~gp.image_patch.corrected =>
                /\ gp.n = MaxTries
                /\ gp.sampled = MaxTries + 1
                /\ <<gp.image_patch.y, gp.image_patch.x>> = gp.first

C7_Witness ==
    /\ gp.pc = "done"
    /\ ~gp.image_patch.corrected
    /\ gp.n = MaxTries
    /\ gp.first # <<gp.y, gp.x>>
    /\ gp.first \in gp.okLocs

(***************************************************************************)
(* TextureGenerator.quilt_texture                                          *)
(***************************************************************************)
\* Largest patch_size, and largest patch_number_width / patch_number_height.
MaxPatch == 6

MaxCount == 2

\* Largest excess of the source image's sides over patch_size.
MaxMargin == 1

\* An overlap of a quarter of the patch.
quarter_overlap(patch_size) == patch_size \div 4

\* overlap = patch_size // 5
quilt_overlap(patch_size) == patch_size \div 5

\* A stride of a whole patch.
full_stride(patch_size, overlap) == patch_size

\* Lines 590-591: y = i * (patch_size - overlap), x = j * (patch_size - overlap)
quilt_stride(patch_size, overlap) == patch_size - overlap

\* (patch_number * patch_size) - (patch_number - 1) * overlap
quilt_size(patch_number, patch_size) ==
    (patch_number * patch_size) - (patch_number - 1) * quilt_overlap(patch_size)

\* A conversion that leaves the channel count as it is.
keep_channels(t) == t

\* Channel count after cv2.cvtColor(..., COLOR_GRAY2BGR) / COLOR_BGR2GRAY.
gray2bgr(t) == [t EXCEPT !.ch = 3]

bgr2gray(t) == [t EXCEPT !.ch = 1]

\* Channel layout of the returned image: back to gray when is_gray.
quilt_result(image_quilt, is_gray) ==
    IF is_gray THEN bgr2gray(image_quilt) ELSE image_quilt

\* The patches get_random_patch can return for a source of ysize x xsize.
random_patches(patch_size, ysize, xsize) ==
    { patch_at(y, x, patch_size, ysize, xsize, c) :
        y \in randint_values(ysize - patch_size),
        x \in randint_values(xsize - patch_size),
        c \in BOOLEAN }

QuiltInit ==
    /\ \E patch_size \in 1 .. MaxPatch, pnw \in 1 .. MaxCount, pnh \in 1 .. MaxCount,
          my \in 0 .. MaxMargin, mx \in 0 .. MaxMargin, ch \in {1, 3} :
          qt = [pc |-> "start",
                image_texture |-> [h |-> patch_size + my, w |-> patch_size + mx,
                                   ch |-> ch, src |-> "gen"],
                patch_size |-> patch_size,
                patch_number_width |-> pnw, patch_number_height |-> pnh,
                overlap |-> 0, is_gray |-> FALSE,
                image_quilt |-> [h |-> 0, w |-> 0, ch |-> 0, src |-> "quilt"],
                i |-> 0, j |-> 0, placed |-> 0, slots |-> {}]
    /\ rz = Idle /\ ed = Idle /\ gp = Idle /\ pf = Idle /\ tg = Idle

\* Lines 543-584: overlap, output canvas, gray to BGR, HSV copy and the
\* reference patch (its np.random.randint draws need a source larger than
\* the patch).
QuiltSetup ==
    /\ qt.pc = "start"
    /\ randint_values(qt.image_texture.h - qt.patch_size) # {}
    /\ randint_values(qt.image_texture.w - qt.patch_size) # {}
    /\ LET is_gray == qt.image_texture.ch < 3
           src == IF is_gray THEN gray2bgr(qt.image_texture) ELSE qt.image_texture
       IN  qt' = [qt EXCEPT
                    !.pc = "cells",
                    !.overlap = quilt_overlap(qt.patch_size),
                    !.is_gray = is_gray,
                    !.image_texture = src,
                    !.image_quilt = [h |-> quilt_size(qt.patch_number_height, qt.patch_size),
                                     w |-> quilt_size(qt.patch_number_width, qt.patch_size),
                                     ch |-> src.ch, src |-> "quilt"]]
    /\ UNCHANGED <<rz, ed, gp, pf, tg>>

QuiltSetupRaises ==
    /\ qt.pc = "start"
    /\ \/ randint_values(qt.image_texture.h - qt.patch_size) = {}
       \/ randint_values(qt.image_texture.w - qt.patch_size) = {}
    /\ qt' = [qt EXCEPT !.pc = "raised"]
    /\ UNCHANGED <<rz, ed, gp, pf, tg>>

\* One pass of the inner loop: cell (i, j) receives a patch.  The slice
\* assignment raises when the slot and the patch differ in shape.
QuiltPlace ==
    /\ qt.pc = "cells"
    /\ qt.i < qt.patch_number_height
    /\ \E image_patch \in random_patches(qt.patch_size, qt.image_texture.h, qt.image_texture.w) :
          LET y == qt.i * quilt_stride(qt.patch_size, qt.overlap)
              x == qt.j * quilt_stride(qt.patch_size, qt.overlap)
              fits == /\ slice_len(y, y + qt.patch_size, qt.image_quilt.h) = image_patch.h
                      /\ slice_len(x, x + qt.patch_size, qt.image_quilt.w) = image_patch.w
              last_j == qt.j + 1 = qt.patch_number_width
          IN  qt' = [qt EXCEPT
                       !.pc = IF fits THEN "cells" ELSE "raised",
                       !.placed = IF fits THEN @ + 1 ELSE @,
                       !.slots = @ \cup { [i |-> qt.i, j |-> qt.j, y |-> y, x |-> x,
                                           patch_h |-> image_patch.h,
                                           patch_w |-> image_patch.w] },
                       !.j = IF last_j THEN 0 ELSE @ + 1,
                       !.i = IF last_j THEN @ + 1 ELSE @]
    /\ UNCHANGED <<rz, ed, gp, pf, tg>>

\* Lines 603-613: median blur, enhance_contrast (both keep the shape) and
\* the conversion back to gray.
QuiltFinish ==
    /\ qt.pc = "cells"
    /\ qt.i >= qt.patch_number_height
    /\ qt' = [qt EXCEPT !.pc = "done",
                        !.image_quilt = quilt_result(qt.image_quilt, qt.is_gray)]
    /\ UNCHANGED <<rz, ed, gp, pf, tg>>

QuiltNext ==
    \/ QuiltSetup
    \/ QuiltSetupRaises
    \/ QuiltPlace
    \/ QuiltFinish

SpecQuilt == QuiltInit /\ [][QuiltNext]_vars

\* C6: the quilted image is cw*patchSize - (cw-1)*(patchSize // 5) wide and
\* ch*patchSize - (ch-1)*(patchSize // 5) high, every cell has received its
\* patch, and a single-channel source gives a single-channel result (a
\* 3-channel source a 3-channel one).
C6_QuiltOutputShape ==
    /\ qt.pc = "done" =>
          /\ qt.image_quilt.w = qt.patch_number_width * qt.patch_size
                                  - (qt.patch_number_width - 1) * (qt.patch_size \div 5)
          /\ qt.image_quilt.h = qt.patch_number_height * qt.patch_size
                                  - (qt.patch_number_height - 1) * (qt.patch_size \div 5)
          /\ qt.placed = qt.patch_number_width * qt.patch_number_height
          /\ qt.image_quilt.ch = (IF qt.is_gray THEN 1 ELSE 3)
    /\ qt.pc = "raised" => qt.placed = 0 /\ qt.i = 0 /\ qt.j = 0

C6_Witness ==
    /\ qt.pc = "done"
    /\ qt.is_gray
    /\ qt.patch_size >= 5
    /\ qt.patch_number_width = 2
    /\ qt.patch_number_height = 2
    /\ qt.image_quilt.w = 2 * qt.patch_size - 1

\* C23: with stride patch_size - overlap every slot
\* [i*stride, i*stride + patch_size) x [j*stride, j*stride + patch_size)
\* lies inside the canvas, the last slot on each axis ends at the canvas
\* edge, the slots cover the whole canvas, and every donor patch is a full
\* patch_size x patch_size block, so that no slot assignment has a shape
\* mismatch.
C23_SlotsTileCanvas ==
    /\ qt.pc \in {"cells", "done", "raised"} =>
          \A s \in qt.slots :
              /\ s.patch_h = qt.patch_size /\ s.patch_w = qt.patch_size
              /\ qt.pc # "raised" =>
                    /\ s.y >= 0 /\ s.y + qt.patch_size <= qt.image_quilt.h
                    /\ s.x >= 0 /\ s.x + qt.patch_size <= qt.image_quilt.w
    /\ qt.pc = "raised" => qt.slots = {}
    /\ qt.pc = "done" =>
          /\ \A i \in 0 .. qt.patch_number_height - 1, j \in 0 .. qt.patch_number_width - 1 :
                \E s \in qt.slots : s.i = i /\ s.j = j
          /\ \E s \in qt.slots : s.y + qt.patch_size = qt.image_quilt.h
          /\ \E s \in qt.slots : s.x + qt.patch_size = qt.image_quilt.w
          /\ \A r \in 0 .. qt.image_quilt.h - 1, c \in 0 .. qt.image_quilt.w - 1 :
                \E s \in qt.slots : /\ s.y <= r /\ r < s.y + qt.patch_size
                                     /\ s.x <= c /\ c < s.x + qt.patch_size

C23_Witness ==
    /\ qt.pc = "done"
    /\ qt.patch_size = 5
    /\ qt.patch_number_width = 2
    /\ qt.patch_number_height = 2
    /\ Cardinality(qt.slots) = 4
    /\ qt.image_quilt.h = 9

(***************************************************************************)
(* PaperFactory: construction, retrieve_texture, generate_random_texture   *)
(* and __call__ (the branch taken when force or should_run() holds).       *)
(***************************************************************************)
\* Most files in the texture directory.
MaxFiles == 2

\* Shapes <<h, w>> of the image files in the texture directory, and of the
\* images handed to __call__.
LibShapes == { <<6, 6>>, <<2, 6>> }

ImageShapes == { <<3, 3>>, <<5, 3>> }

\* A directory listing: the i-th file is named i; an invalid file is one
\* cv2.imread cannot decode.
FileKinds ==
    { [valid |-> FALSE, h |-> 0, w |-> 0] }
      \cup { [valid |-> TRUE, h |-> sh[1], w |-> sh[2]] : sh \in LibShapes }

Directories == UNION { [1 .. n -> FileKinds] : n \in 0 .. MaxFiles }

\* cv2.imread(file): always a 3-channel BGR array.
imread(file) == [h |-> file.h, w |-> file.w, ch |-> 3, src |-> "lib"]

\* self.texture_file_names after the constructor's loop: every file's name.
RECURSIVE load_file_names(_, _)
load_file_names(files, i) ==
    IF i > Len(files) THEN <<>> ELSE <<i>> \o load_file_names(files, i + 1)

\* self.paper_textures after the constructor's loop: the valid files only.
RECURSIVE load_paper_textures(_, _)
load_paper_textures(files, i) ==
    IF i > Len(files) THEN <<>>
    ELSE (IF files[i].valid THEN <<imread(files[i])>> ELSE <<>>)
           \o load_paper_textures(files, i + 1)

\* Constructor arguments: a flag is "random", "0" or "1".
Configs ==
    { [texture_enable_color |-> "random", blend_texture |-> "random", blend_method |-> "random"],
      [texture_enable_color |-> "1", blend_texture |-> "0", blend_method |-> "ink_to_paper"],
      [texture_enable_color |-> "0", blend_texture |-> "1", blend_method |-> "max"] }

\* The list random.choice draws blend_method from.
BlendMethods ==
    { "ink_to_paper", "min", "max", "mix", "normal", "lighten", "darken",
      "screen", "dodge", "multiply", "divide", "grain_merge", "overlay", "FFT" }

\* The list TextureGenerator.__call__ draws from when it is handed
\* texture_type = "random" (line 702).
GeneratorTypes ==
    { "normal", "strange", "rough_stains", "fine_stains", "granular",
      "curvy_edge", "broken_edge" }

\* The type TextureGenerator.__call__ synthesises for a texture_type argument.
resolve_texture_type(texture_type) ==
    IF texture_type = "random" THEN GeneratorTypes ELSE {texture_type}

seven_texture_types == { "normal", "strange", "rough_stains", "fine_stains", "granular", "curvy_edge", "broken_edge" }

\* The texture types generate_random_texture draws from.
TextureTypes == { "normal", "strange", "rough_stains", "fine_stains", "granular" }

EdgeTypes == { "curvy_edge", "broken_edge" }

\* A flag resolved for one call: random.randint(0, 1) when "random".
resolve_flag(flag) == IF flag = "random" THEN {0, 1} ELSE IF flag = "1" THEN {1} ELSE {0}

resolve_blend_method(blend_method) ==
    IF blend_method = "random" THEN BlendMethods ELSE {blend_method}

\* np.rot90(texture, k)
rot90(t, k) == IF k % 2 = 1 THEN [t EXCEPT !.h = t.w, !.w = t.h] ELSE t

\* The contours cv2 finds in a library texture: none, or one around it all.
found_contours(t) == { <<>>, <<box_points(0, t.w - 1, 0, t.h - 1, 0)>> }

\* texture[start_y : start_y + shape[0], start_x : start_x + shape[1]]
random_location(t, shape_h, shape_w, start_y, start_x) ==
    [t EXCEPT !.h = slice_len(start_y, start_y + shape_h, t.h),
              !.w = slice_len(start_x, start_x + shape_w, t.w)]

\* The else branch of retrieve_texture: texture = self.resize(texture, shape).
fit_to_shape(t, shape_h, shape_w, u1, u2) == resize(t, shape_h, shape_w, u1, u2)

NoTexture == [h |-> 0, w |-> 0, ch |-> 0, src |-> "none"]

\* Lines 81-85 of retrieve_texture: the two assignments that would empty
\* texture_file_names and paper_textures stand inside a string literal, an
\* expression statement without effect; each attribute keeps its value.
cleared_library(attribute) == <<>>

reset_library(attribute) == attribute

\* Lines 77-88 of retrieve_texture: the library textures random_index can
\* pick, rotated and edge-checked, over the draws of random_index and k and
\* over the contours cv2 can find; each comes with its index.
edge_checked_textures(paper_textures) ==
    UNION { { <<d[1], check_paper_edges(rot90(paper_textures[d[1]], d[2]), contours).texture>> :
                contours \in found_contours(rot90(paper_textures[d[1]], d[2])) } :
            d \in (1 .. Len(paper_textures)) \X (1 .. 4) }

\* Lines 90-104 of retrieve_texture: a random location of the edge-checked
\* texture when it is larger than the shape on both axes, else resize; acq
\* names the array returned.
place_texture(edged, texture_file_names, shape_h, shape_w, random_index, start, u1, u2, acq) ==
    IF edged.h > shape_h /\ edged.w > shape_w
    THEN [texture |-> [random_location(edged, shape_h, shape_w,
                           IF start = 0 THEN 0 ELSE edged.h - shape_h,
                           IF start = 0 THEN 0 ELSE edged.w - shape_w)
                         EXCEPT !.src = acq],
          err |-> FALSE,
          texture_file_name |-> texture_file_names[random_index],
          random_index |-> random_index,
          branch |-> "location"]
    ELSE CHOOSE r \in
           { [texture |-> [fitted.texture EXCEPT !.src = acq],
              err |-> fitted.err,
              texture_file_name |-> texture_file_names[random_index],
              random_index |-> random_index,
              branch |-> "resize"] :
             fitted \in { fit_to_shape(edged, shape_h, shape_w, u1, u2) } } : TRUE

\* retrieve_texture(image): every outcome over its random draws.
retrieve_texture(paper_textures, texture_file_names, shape_h, shape_w, acq) ==
    IF Len(paper_textures) = 0
    THEN \* line 77: random.randint(0, -1) raises ValueError
         { [texture |-> NoTexture, err |-> TRUE, texture_file_name |-> 0,
            random_index |-> 0, branch |-> "empty"] }
    ELSE
    UNION { { place_texture(e[2], texture_file_names, shape_h, shape_w, e[1],
                            d[1], d[2], d[3], acq) :
                d \in {0, 1} \X UnitDraws \X UnitDraws } :
            e \in edge_checked_textures(paper_textures) }

\* One single-side crop of generate_random_texture (0 top, 1 bottom, 2 left,
\* 3 right), with the ysize / xsize of the input image.
crop_side(t, selection, ysize, xsize) ==
    LET crop_x == xsize \div 20
        crop_y == ysize \div 20
    IN  CASE selection = 0 -> [t EXCEPT !.h = slice_len(crop_y, t.h, t.h)]
          [] selection = 1 -> [t EXCEPT !.h = slice_len(0, ysize - crop_y, t.h)]
          [] selection = 2 -> [t EXCEPT !.w = slice_len(crop_x, t.w, t.w)]
          [] selection = 3 -> [t EXCEPT !.w = slice_len(0, xsize - crop_x, t.w)]

\* selections = [0, 1, 2, 3]: top, bottom, left, right.
Selections == 0 .. 3

same_selections(selections, selection1) == selections

\* selections.remove(selection1)
remaining_selections(selections, selection1) == selections \ {selection1}

\* The crops generate_random_texture can apply: none when the first
\* random.randint(0, 1) is 0, one when the second is 0, else two, the
\* second side drawn from the selections left.
crop_plans ==
    { <<>> } \cup { <<selection1>> : selection1 \in Selections }
             \cup UNION { { <<selection1, selection2>> :
                               selection2 \in remaining_selections(Selections, selection1) } :
                           selection1 \in Selections }

\* generate_random_texture(image): every generator returns a 2-D array of
\* the requested size; the edge texture is multiplied in or used as a mask.
generate_random_texture(ysize, xsize, texture_type, edge_type, plan, acq) ==
    LET texture == [h |-> ysize, w |-> xsize, ch |-> 1, src |-> acq]
        t1 == IF Len(plan) >= 1 THEN crop_side(texture, plan[1], ysize, xsize) ELSE texture
        t2 == IF Len(plan) >= 2 THEN crop_side(t1, plan[2], ysize, xsize) ELSE t1
    IN  t2

\* Every outcome of generate_random_texture(image) over its random draws.
generated_textures(ysize, xsize, acq) ==
    { generate_random_texture(ysize, xsize, texture_type, edge_type, plan, acq) :
        texture_type \in TextureTypes, edge_type \in EdgeTypes, plan \in crop_plans }

\* Line 218: new_texture = cv2.resize(texture, (texture.shape[1], texture.shape[0])).
resize_for_blend(texture, new_texture) == texture

\* OverlayBuilder(blend_method, new_texture, texture, 1, (1, 1), "center", 0):
\* the second argument is the foreground, the third the background.
overlay_builder(blend_method, new_texture, texture) ==
    [overlay_types |-> blend_method, foreground |-> new_texture, background |-> texture]

\* ob.build_overlay(): the merged texture has the background's shape.
build_overlay(ob) == [ob.background EXCEPT !.src = "blend"]

\* The values of random.randint(a, b) that are drawn: both ends and the middle.
randint_sample(a, b) == {a, (a + b) \div 2, b}

\* A ColorPaper block that runs for every texture.
colorizes_always(texture) == TRUE

\* Whether the ColorPaper block runs for a texture when color is enabled.
colorizes(texture) == texture.ch < 3

\* hue_range and saturation_range as computed in the ColorPaper block.
hue_range(hue) == <<hue - 10, hue + 10>>

saturation_range(saturation) == <<saturation - 10, saturation + 10>>

\* Average intensities generate_average_intensity can report (fractions).
Intensities == { <<0, 1>>, <<1, 1>>, <<100, 1>>, <<399, 2>>, <<200, 1>>, <<255, 1>> }

target_intensity == <<200, 1>>

\* abs(texture_intensity - target_intensity) / texture_intensity; numpy's
\* float division by 0.0 gives inf, kept here as a fraction of denominator 0.
brighten_ratio(texture_intensity) ==
    LET d == FSub(texture_intensity, target_intensity)
    IN  Frac(Abs(d[1]) * texture_intensity[2], d[2] * texture_intensity[1])

\* (brighten_min, brighten_max) = (1 + ratio / 2, 1 + ratio)
brightness_range(ratio) ==
    << Frac(2 * ratio[2] + ratio[1], 2 * ratio[2]), Frac(ratio[2] + ratio[1], ratio[2]) >>

\* A brightness test that includes the target intensity itself.
brightens_at_target(texture_intensity) == FLeq(texture_intensity, target_intensity)

\* Whether the Brightness block runs.
brightens(texture_intensity) == FLess(texture_intensity, target_intensity)

\* Python's None, and the auxiliary arguments of __call__: each of mask,
\* keypoints and bounding_boxes is None or an object of the caller.
None == "None"

AuxInputs == {None, "mask"} \X {None, "keypoints"} \X {None, "bounding_boxes"}

\* A result that keeps only the auxiliary values that were given.
outputs_given(mask, keypoints, bounding_boxes) ==
    SelectSeq(<<mask, keypoints, bounding_boxes>>, LAMBDA v : v # None)

\* outputs_extra of lines 291-293: all three values once one of them is given.
outputs_extra(mask, keypoints, bounding_boxes) ==
    IF mask # None \/ keypoints # None \/ bounding_boxes # None
    THEN <<mask, keypoints, bounding_boxes>>
    ELSE <<>>

\* Lines 296-300: [texture] + outputs_extra, or the bare texture.
call_result(texture, extra) ==
    IF extra # <<>>
    THEN [is_list |-> TRUE, items |-> <<texture>> \o extra]
    ELSE [is_list |-> FALSE, items |-> <<texture>>]

NoResult == [is_list |-> FALSE, items |-> <<>>]

NoTrace == [step |-> "none"]

FactoryInit ==
    /\ \E files \in Directories, cfg \in Configs :
          pf = [pc |-> "ready",
                files |-> files,
                cfg |-> cfg,
                texture_file_names |-> load_file_names(files, 1),
                texture_file_name |-> 0,
                paper_textures |-> load_paper_textures(files, 1),
                image |-> NoTexture,
                blend_texture |-> 0,
                texture_enable_color |-> 0,
                texture |-> NoTexture,
                new_texture |-> NoTexture,
                mask |-> None, keypoints |-> None, bounding_boxes |-> None,
                result |-> NoResult,
                trace |-> NoTrace]
    /\ rz = Idle /\ ed = Idle /\ gp = Idle /\ qt = Idle /\ tg = Idle

\* Lines 197 and 208: "if self.paper_textures:" and
\* "if len(self.paper_textures) > 0:", the same test of the library list.
always_available(paper_textures) == TRUE

library_available(paper_textures) == Len(paper_textures) > 0

\* __call__ is entered with an image and the auxiliary arguments; the two
\* flags are resolved.
CallBegin ==
    /\ pf.pc = "ready"
    /\ \E sh \in ImageShapes, b \in resolve_flag(pf.cfg.blend_texture),
          c \in resolve_flag(pf.cfg.texture_enable_color), aux \in AuxInputs :
          pf' = [pf EXCEPT !.pc = "acquire",
                           !.mask = aux[1], !.keypoints = aux[2],
                           !.bounding_boxes = aux[3],
                           !.result = NoResult,
                           !.image = [h |-> sh[1], w |-> sh[2], ch |-> 3, src |-> "image"],
                           !.blend_texture = b,
                           !.texture_enable_color = c,
                           !.texture = NoTexture,
                           !.trace = NoTrace]
    /\ UNCHANGED <<rz, ed, gp, qt, tg>>

\* if self.paper_textures: texture = self.retrieve_texture(image)
CallRetrieve ==
    /\ pf.pc = "acquire"
    /\ library_available(pf.paper_textures)
    /\ \E r \in retrieve_texture(pf.paper_textures, pf.texture_file_names,
                                  pf.image.h, pf.image.w, "first") :
                 pf' = [pf EXCEPT !.pc = IF r.err THEN "raised" ELSE "blend",
                                  !.texture = r.texture,
                                  !.texture_file_name =
                                      IF r.branch = "empty" THEN @ ELSE r.texture_file_name,
                                  !.texture_file_names =
                                      IF r.branch = "empty" THEN @ ELSE reset_library(@),
                                  !.paper_textures =
                                      IF r.branch = "empty" THEN @ ELSE reset_library(@),
                                  !.trace = [step |-> "retrieve",
                                             random_index |-> r.random_index,
                                             branch |-> r.branch]]
    /\ UNCHANGED <<rz, ed, gp, qt, tg>>

\* else: texture = self.generate_random_texture(image)
CallGenerate ==
    /\ pf.pc = "acquire"
    /\ ~library_available(pf.paper_textures)
    /\ \E texture \in generated_textures(pf.image.h, pf.image.w, "first") :
          pf' = [pf EXCEPT !.pc = "blend",
                           !.texture = texture,
                           !.trace = [step |-> "generate"]]
    /\ UNCHANGED <<rz, ed, gp, qt, tg>>

\* if blend_texture: the second texture is taken from the library and its
\* channel count is matched to the first texture's (lines 208-213).
CallBlendRetrieve ==
    /\ pf.pc = "blend"
    /\ pf.blend_texture = 1
    /\ library_available(pf.paper_textures)
    /\ \E r \in retrieve_texture(pf.paper_textures, pf.texture_file_names,
                                  pf.texture.h, pf.texture.w, "second") :
             LET acquired == IF r.texture.ch < 3 /\ pf.texture.ch > 2
                             THEN gray2bgr(r.texture)
                             ELSE IF r.texture.ch > 2 /\ pf.texture.ch < 3
                                  THEN bgr2gray(r.texture)
                                  ELSE r.texture
             IN  pf' = [pf EXCEPT !.pc = IF r.err THEN "raised" ELSE "overlay",
                                  !.new_texture = acquired,
                                  !.texture_file_name =
                                      IF r.branch = "empty" THEN @ ELSE r.texture_file_name,
                                  !.texture_file_names =
                                      IF r.branch = "empty" THEN @ ELSE reset_library(@),
                                  !.paper_textures =
                                      IF r.branch = "empty" THEN @ ELSE reset_library(@),
                                  !.trace = [step |-> "second", source |-> "library",
                                             branch |-> r.branch]]
    /\ UNCHANGED <<rz, ed, gp, qt, tg>>

\* if blend_texture: the second texture is generated (line 215).
CallBlendGenerate ==
    /\ pf.pc = "blend"
    /\ pf.blend_texture = 1
    /\ ~library_available(pf.paper_textures)
    /\ \E new_texture \in generated_textures(pf.texture.h, pf.texture.w, "second") :
          pf' = [pf EXCEPT !.pc = "overlay",
                           !.new_texture = new_texture,
                           !.trace = [step |-> "second", source |-> "generated",
                                      branch |-> "generate"]]
    /\ UNCHANGED <<rz, ed, gp, qt, tg>>

\* Lines 217-257: the resize for size consistency, the blend method and the
\* OverlayBuilder call.
CallOverlay ==
    /\ pf.pc = "overlay"
    /\ \E blend_method \in resolve_blend_method(pf.cfg.blend_method) :
          LET new_texture == resize_for_blend(pf.texture, pf.new_texture)
              ob == overlay_builder(blend_method, new_texture, pf.texture)
          IN  pf' = [pf EXCEPT !.pc = "color",
                               !.texture = build_overlay(ob),
                               !.new_texture = NoTexture,
                               !.trace = [step |-> "blend", first |-> pf.texture, ob |-> ob]]
    /\ UNCHANGED <<rz, ed, gp, qt, tg>>

CallNoBlend ==
    /\ pf.pc = "blend"
    /\ pf.blend_texture = 0
    /\ pf' = [pf EXCEPT !.pc = "color", !.trace = NoTrace]
    /\ UNCHANGED <<rz, ed, gp, qt, tg>>

\* if texture_enable_color: ... else: ...  (lines 259-277)
CallColor ==
    /\ pf.pc = "color"
    /\ \E paint \in { pf.texture_enable_color = 1 /\ colorizes(pf.texture) } :
       \E hue \in IF paint THEN randint_sample(10, 255 - 10) ELSE {0},
          saturation \in IF paint THEN randint_sample(50 + 10, 205 - 10) ELSE {0} :
          LET arrived == pf.texture
              out == IF pf.texture_enable_color = 1
                     THEN (IF arrived.ch < 3 THEN gray2bgr(arrived) ELSE arrived)
                     ELSE (IF arrived.ch > 2 THEN bgr2gray(arrived) ELSE arrived)
          IN  pf' = [pf EXCEPT !.pc = "bright",
                               !.texture = out,
                               !.trace = [step |-> "color",
                                          arrived_ch |-> arrived.ch,
                                          color_paper_calls |-> IF paint THEN 1 ELSE 0,
                                          hue_range |-> IF paint THEN hue_range(hue) ELSE <<0, 0>>,
                                          saturation_range |-> IF paint
                                                               THEN saturation_range(saturation)
                                                               ELSE <<0, 0>>,
                                          saturation |-> IF paint THEN saturation ELSE 0]]
    /\ UNCHANGED <<rz, ed, gp, qt, tg>>

\* Lines 279-300: brightness normalisation and return.
CallBrightness ==
    /\ pf.pc = "bright"
    /\ \E texture_intensity \in Intensities :
          LET run == brightens(texture_intensity)
              ratio == brighten_ratio(texture_intensity)
              out == IF run THEN [pf.texture EXCEPT !.src = "brightened"] ELSE pf.texture
          IN  pf' = [pf EXCEPT !.pc = "done",
                               !.texture = out,
                               !.result = call_result(out,
                                              outputs_extra(pf.mask, pf.keypoints,
                                                            pf.bounding_boxes)),
                               !.trace = [step |-> "brightness",
                                          before |-> pf.texture,
                                          texture_intensity |-> texture_intensity,
                                          brightness_calls |-> IF run THEN 1 ELSE 0,
                                          brighten_ratio |-> IF run THEN ratio ELSE <<0, 1>>,
                                          brightness_range |-> IF run THEN brightness_range(ratio)
                                                               ELSE <<<<0, 1>>, <<0, 1>>>>,
                                          min_brightness |-> IF run THEN 1 ELSE 0]]
    /\ UNCHANGED <<rz, ed, gp, qt, tg>>

\* The call returns: its locals are gone, the object's attributes stay.
CallReturn ==
    /\ pf.pc = "done"
    /\ pf' = [pf EXCEPT !.pc = "ready",
                        !.image = NoTexture,
                        !.blend_texture = 0,
                        !.texture_enable_color = 0,
                        !.texture = NoTexture,
                        !.new_texture = NoTexture,
                        !.mask = None, !.keypoints = None, !.bounding_boxes = None,
                        !.result = NoResult,
                        !.trace = NoTrace]
    /\ UNCHANGED <<rz, ed, gp, qt, tg>>

FactoryNext ==
    \/ CallBegin
    \/ CallRetrieve
    \/ CallGenerate
    \/ CallBlendRetrieve
    \/ CallBlendGenerate
    \/ CallOverlay
    \/ CallNoBlend
    \/ CallColor
    \/ CallBrightness
    \/ CallReturn

SpecFactory == FactoryInit /\ [][FactoryNext]_vars


\* C2: retrieve_texture returns a texture whose height and width equal the
\* target image's exactly, on the random-location branch and on the resize
\* branch alike.
C2_RetrieveExactShape ==
    (pf.pc = "blend" /\ pf.trace.step = "retrieve") =>
        /\ pf.texture.h = pf.image.h
        /\ pf.texture.w = pf.image.w

\* C3: with blending enabled the foreground handed to OverlayBuilder is the
\* second acquired texture at the first texture's height and width, and the
\* background is the first texture.
C3_SecondTextureIsBlended ==
    (pf.pc = "color" /\ pf.trace.step = "blend") =>
        /\ pf.trace.ob.foreground.src = "second"
        /\ pf.trace.ob.foreground.h = pf.trace.first.h
        /\ pf.trace.ob.foreground.w = pf.trace.first.w
        /\ pf.trace.ob.background = pf.trace.first

\* C8: the texture __call__ returns has 3 channels when texture_enable_color
\* resolved to 1 and 1 channel when it resolved to 0, on every acquisition
\* path, with or without blending, brightened or not.
C8_ChannelsMatchColorFlag ==
    pf.pc = "done" =>
        pf.texture.ch = (IF pf.texture_enable_color = 1 THEN 3 ELSE 1)

C8_Witness ==
    /\ pf.pc = "done"
    /\ pf.texture_enable_color = 0
    /\ pf.blend_texture = 1
    /\ Len(pf.paper_textures) > 0
    /\ pf.trace.brightness_calls = 1
    /\ pf.texture.ch = 1

\* C9 as stated: whenever texture_enable_color resolved to 1 ColorPaper is
\* applied exactly once, whether the texture arrives single-channel or
\* 3-channel, with hue range [h - 10, h + 10] and saturation range
\* [s - 10, s + 10], s in [60, 195], both inside [0, 255].
C9_ColorizerAlwaysApplied ==
    (pf.pc = "bright" /\ pf.trace.step = "color" /\ pf.texture_enable_color = 1) =>
        /\ pf.trace.color_paper_calls = 1
        /\ pf.trace.hue_range[2] = pf.trace.hue_range[1] + 20
        /\ pf.trace.saturation_range = <<pf.trace.saturation - 10, pf.trace.saturation + 10>>
        /\ pf.trace.saturation \in 60 .. 195
        /\ pf.trace.hue_range[1] >= 0 /\ pf.trace.hue_range[2] <= 255
        /\ pf.trace.saturation_range[1] >= 0 /\ pf.trace.saturation_range[2] <= 255

\* C9 amended: with texture_enable_color resolved to 1 ColorPaper is applied
\* exactly once to a texture that arrives single-channel (after its
\* conversion to 3 channels), with hue range [h - 10, h + 10] and saturation
\* range [s - 10, s + 10], s in [60, 195], both inside [0, 255]; a texture
\* that arrives 3-channel passes through without a ColorPaper call, and so
\* does every texture when the flag resolved to 0.
C9_ColorizerOnlySingleChannel ==
    (pf.pc = "bright" /\ pf.trace.step = "color") =>
        /\ pf.trace.color_paper_calls =
              (IF pf.texture_enable_color = 1 /\ pf.trace.arrived_ch < 3 THEN 1 ELSE 0)
        /\ pf.trace.color_paper_calls = 1 =>
              /\ pf.texture.ch = 3
              /\ pf.trace.hue_range[2] = pf.trace.hue_range[1] + 20
              /\ pf.trace.saturation_range =
                    <<pf.trace.saturation - 10, pf.trace.saturation + 10>>
              /\ pf.trace.saturation \in 60 .. 195
              /\ pf.trace.hue_range[1] >= 0 /\ pf.trace.hue_range[2] <= 255
              /\ pf.trace.saturation_range[1] >= 0 /\ pf.trace.saturation_range[2] <= 255
        /\ (pf.texture_enable_color = 1 /\ pf.trace.arrived_ch = 3) =>
              pf.texture.ch = 3

C9_Witness ==
    /\ pf.pc = "bright"
    /\ pf.trace.step = "color"
    /\ pf.texture_enable_color = 1
    /\ pf.trace.arrived_ch = 3
    /\ pf.trace.color_paper_calls = 0
    /\ Len(pf.paper_textures) > 0

\* C10: Brightness is invoked iff the average intensity is below 200; then
\* ratio = |intensity - 200| / intensity, the range is
\* (1 + ratio / 2, 1 + ratio) with 1 < lower <= upper, and min_brightness is
\* 1; at 200 and above the texture leaves the step unchanged.
C10_BrightnessNormalization ==
    (pf.pc = "done" /\ pf.trace.step = "brightness") =>
        LET i == pf.trace.texture_intensity
            ratio == pf.trace.brighten_ratio
            lower == pf.trace.brightness_range[1]
            upper == pf.trace.brightness_range[2]
        IN  /\ (pf.trace.brightness_calls = 1) <=> (i[1] < 200 * i[2])
            /\ pf.trace.brightness_calls \in {0, 1}
            /\ pf.trace.brightness_calls = 1 =>
                  /\ ratio[1] * i[1] = Abs(i[1] - 200 * i[2]) * ratio[2]
                  /\ lower[1] * 2 * ratio[2] = (2 * ratio[2] + ratio[1]) * lower[2]
                  /\ upper[1] * ratio[2] = (ratio[2] + ratio[1]) * upper[2]
                  /\ lower[2] < lower[1]
                  /\ lower[1] * upper[2] <= upper[1] * lower[2]
                  /\ pf.trace.min_brightness = 1
            /\ pf.trace.brightness_calls = 0 => pf.texture = pf.trace.before

C10_Witness ==
    /\ pf.pc = "done"
    /\ pf.trace.step = "brightness"
    /\ pf.trace.brightness_calls = 1
    /\ pf.trace.texture_intensity = <<399, 2>>
    /\ pf.trace.brightness_range = << <<799, 798>>, <<400, 399>> >>

\* C12: __call__ returns [texture, mask, keypoints, bounding_boxes] with the
\* very values passed in (None stays None) when at least one of the three
\* is given and the bare texture when none is; no step of the call changes
\* the auxiliary values.
C12_AuxiliaryPassThrough ==
    [][ /\ pf.pc \in {"acquire", "blend", "overlay", "color", "bright"} =>
             <<pf'.mask, pf'.keypoints, pf'.bounding_boxes>>
                = <<pf.mask, pf.keypoints, pf.bounding_boxes>>
        /\ pf'.pc = "done" =>
             IF <<pf.mask, pf.keypoints, pf.bounding_boxes>> = <<None, None, None>>
             THEN pf'.result = [is_list |-> FALSE, items |-> <<pf'.texture>>]
             ELSE pf'.result = [is_list |-> TRUE,
                                items |-> <<pf'.texture, pf.mask, pf.keypoints,
                                            pf.bounding_boxes>>] ]_vars

C12_Witness ==
    /\ pf.pc = "done"
    /\ pf.mask = None
    /\ pf.keypoints = "keypoints"
    /\ pf.bounding_boxes = None
    /\ pf.result.items = <<pf.texture, None, "keypoints", None>>

\* C13: in every invocation the primary texture, and the second texture
\* when blending, is synthesised if and only if the loaded library is
\* empty; retrieve_texture is never entered with an empty library, so an
\* empty library (every file invalid included) raises nothing.
C13_SynthesisIffLibraryEmpty ==
    /\ pf.trace.step = "retrieve" =>
          Len(pf.paper_textures) > 0 /\ pf.trace.branch # "empty"
    /\ pf.trace.step = "generate" => Len(pf.paper_textures) = 0
    /\ pf.trace.step = "second" =>
          /\ pf.trace.source = "library" <=> Len(pf.paper_textures) > 0
          /\ pf.trace.branch # "empty"
    /\ pf.pc = "raised" => Len(pf.paper_textures) > 0

C13_Witness ==
    /\ pf.pc = "overlay"
    /\ Len(pf.files) = 2
    /\ Len(pf.paper_textures) = 0
    /\ pf.texture.src = "first"
    /\ pf.trace.step = "second"
    /\ pf.trace.source = "generated"

C22_FileNameOfSelectedTexture ==
    /\ Len(pf.texture_file_names) = Len(pf.paper_textures)
    /\ pf.trace.step = "retrieve" =>
          LET valid == { i \in 1 .. Len(pf.files) : pf.files[i].valid }
              origin == CHOOSE i \in valid :
                           Cardinality({ j \in valid : j <= i }) = pf.trace.random_index
          IN  pf.texture_file_name = origin

(***************************************************************************)
(* PaperFactory.generate_random_texture on its own: the type drawn, the    *)
(* edge type drawn and the single-side crops.                              *)
(***************************************************************************)
\* Shapes <<ysize, xsize>> of the image handed to generate_random_texture.
GenerateShapes == { <<3, 3>>, <<5, 3>>, <<20, 40>>, <<41, 20>>, <<39, 19>> }

GenerateInit ==
    /\ \E sh \in GenerateShapes :
          tg = [pc |-> "call", kind |-> "generate_random_texture",
                ysize |-> sh[1], xsize |-> sh[2]]
    /\ rz = Idle /\ ed = Idle /\ gp = Idle /\ qt = Idle /\ pf = Idle

\* One call of generate_random_texture: texture_type and edge_type are drawn
\* with random.choice from the two lists and handed to the generator, then
\* the crops are applied.
GenerateRandomTexture ==
    /\ tg.pc = "call"
    /\ tg.kind = "generate_random_texture"
    /\ \E texture_type \in TextureTypes, edge_type \in EdgeTypes, plan \in crop_plans :
       \E generated \in resolve_texture_type(texture_type),
          generated_edge \in resolve_texture_type(edge_type) :
          tg' = [tg EXCEPT !.pc = "done"]
                  @@ [texture_types |-> TextureTypes,
                      edge_types |-> EdgeTypes,
                      texture_type |-> texture_type,
                      edge_type |-> edge_type,
                      generated |-> generated,
                      generated_edge |-> generated_edge,
                      plan |-> plan,
                      texture |-> generate_random_texture(tg.ysize, tg.xsize, texture_type,
                                                          edge_type, plan, "first")]
    /\ UNCHANGED <<rz, ed, gp, qt, pf>>

GenerateNext == GenerateRandomTexture

SpecGenerate == GenerateInit /\ [][GenerateNext]_vars

\* C14 as stated: the primary texture type is picked among all seven
\* texture types, each of the seven a possible outcome, and the edge
\* texture among curvy_edge and broken_edge.
C14_PrimaryAmongSeven ==
    (tg.pc = "done" /\ tg.kind = "generate_random_texture") =>
        /\ tg.texture_types = { "normal", "strange", "rough_stains", "fine_stains",
                                "granular", "curvy_edge", "broken_edge" }
        /\ tg.texture_type \in tg.texture_types
        /\ tg.edge_types = { "curvy_edge", "broken_edge" }
        /\ tg.edge_type \in tg.edge_types

\* C14 amended: the primary texture type is picked among the five types
\* normal, strange, rough_stains, fine_stains and granular, never an edge
\* type; the generator synthesises exactly the type it is handed; the edge
\* texture is picked among curvy_edge and broken_edge.
C14_PrimaryAmongFive ==
    (tg.pc = "done" /\ tg.kind = "generate_random_texture") =>
        /\ tg.texture_types = { "normal", "strange", "rough_stains", "fine_stains",
                                "granular" }
        /\ tg.texture_type \in tg.texture_types
        /\ tg.generated = tg.texture_type
        /\ tg.generated \notin { "curvy_edge", "broken_edge" }
        /\ tg.edge_types = { "curvy_edge", "broken_edge" }
        /\ tg.edge_type \in tg.edge_types
        /\ tg.generated_edge = tg.edge_type

C14_Witness ==
    /\ tg.pc = "done"
    /\ tg.kind = "generate_random_texture"
    /\ tg.generated = "granular"
    /\ tg.generated_edge = "broken_edge"

\* C15: generate_random_texture applies 0, 1 or 2 single-side crops, a
\* second one only after a first one, and two crops never fall on the same
\* side.
C15_CropsOnDistinctSides ==
    (tg.pc = "done" /\ tg.kind = "generate_random_texture") =>
        /\ Len(tg.plan) \in {0, 1, 2}
        /\ \A i \in 1 .. Len(tg.plan) : tg.plan[i] \in {0, 1, 2, 3}
        /\ Len(tg.plan) = 2 => tg.plan[1] # tg.plan[2]

C15_Witness ==
    /\ tg.pc = "done"
    /\ tg.kind = "generate_random_texture"
    /\ tg.plan = <<1, 0>>
    /\ tg.ysize = 41
    /\ tg.texture.h = 37

\* C21: every applied single-side crop removes exactly crop_y = int(ysize/20)
\* rows or crop_x = int(xsize/20) columns from the current texture, so the
\* result is reduced by the sum of the crops applied, whatever their order.
C21_CropsRemoveExactly ==
    (tg.pc = "done" /\ tg.kind = "generate_random_texture") =>
        LET crop_y == tg.ysize \div 20
            crop_x == tg.xsize \div 20
            rows == Cardinality({ i \in 1 .. Len(tg.plan) : tg.plan[i] \in {0, 1} })
            columns == Cardinality({ i \in 1 .. Len(tg.plan) : tg.plan[i] \in {2, 3} })
        IN  /\ tg.texture.h = tg.ysize - rows * crop_y
            /\ tg.texture.w = tg.xsize - columns * crop_x

(***************************************************************************)
(* The min-max normalisations of TextureGenerator and the brighten ratio   *)
(* of PaperFactory.__call__: every division of the core whose denominator  *)
(* is computed from image data.                                            *)
(***************************************************************************)
\* Most pixels of an array handed to a normalisation.
MaxPixels == 3

\* The pixel values of those arrays.
Levels == {0, 128, 255}

PixelArrays == UNION { [1 .. n -> Levels] : n \in 1 .. MaxPixels }

\* image.min() and image.max()
array_min(image) ==
    CHOOSE v \in {image[k] : k \in DOMAIN image} : \A k \in DOMAIN image : v <= image[k]

array_max(image) ==
    CHOOSE v \in {image[k] : k \in DOMAIN image} : \A k \in DOMAIN image : v >= image[k]

\* (image - image.min()) / (image.max() - image.min()), elementwise and
\* without a test of the denominator: numpy's 0.0 / 0.0 is nan (with a
\* RuntimeWarning), kept here as the fraction <<0, 0>>.
min_max_scale(image) ==
    [k \in DOMAIN image |->
        IF array_max(image) - array_min(image) = 0
        THEN <<0, 0>>
        ELSE Frac(image[k] - array_min(image), array_max(image) - array_min(image))]

\* The values np.uint8 can give for nan: the conversion is undefined in C,
\* and builds differ (0 with SSE conversions, 255 or others elsewhere).
NanCasts == {0, 255}

\* np.uint8(scaled * (new_max - new_min) + new_min) of one pixel, complemented
\* (255 - ...) where the routine does so; cast is the outcome for nan.
quantize(scaled, new_min, new_max, complement, cast) ==
    LET q == IF scaled[2] = 0
             THEN cast
             ELSE ((scaled[1] * (new_max - new_min)) \div scaled[2]) + new_min
    IN  IF complement THEN 255 - q ELSE q

\* The normalisation sites: routine, source line of the division, output
\* interval and whether the result is complemented.
NormalizeSites ==
    { [routine |-> "generate_normal_texture", line |-> 63, new_min |-> 32, new_max |-> 255, complement |-> FALSE],
      [routine |-> "generate_FFT_grid", line |-> 425, new_min |-> 0, new_max |-> 255, complement |-> FALSE],
      [routine |-> "remove_frequency", line |-> 521, new_min |-> 0, new_max |-> 255, complement |-> TRUE],
      [routine |-> "generate_granular_texture", line |-> 275, new_min |-> 0, new_max |-> 255, complement |-> TRUE],
      [routine |-> "generate_granular_texture", line |-> 283, new_min |-> 0, new_max |-> 255, complement |-> FALSE],
      [routine |-> "generate_curvy_edge_texture", line |-> 313, new_min |-> 0, new_max |-> 255, complement |-> FALSE],
      [routine |-> "generate_fine_stains_texture", line |-> 352, new_min |-> 0, new_max |-> 255, complement |-> TRUE],
      [routine |-> "generate_fine_stains_texture", line |-> 360, new_min |-> 0, new_max |-> 255, complement |-> FALSE] }

NormalizeInit ==
    /\ \/ \E site \in NormalizeSites, image \in PixelArrays :
             tg = [pc |-> "call", kind |-> "normalize", site |-> site, image |-> image]
       \/ \E texture_intensity \in {i \in Intensities : brightens(i)} :
             tg = [pc |-> "call", kind |-> "brighten", texture_intensity |-> texture_intensity]
    /\ rz = Idle /\ ed = Idle /\ gp = Idle /\ qt = Idle /\ pf = Idle

\* One min-max normalisation followed by its conversion to uint8.
Normalize ==
    /\ tg.pc = "call"
    /\ tg.kind = "normalize"
    /\ \E cast \in NanCasts :
          tg' = [tg EXCEPT !.pc = "done"]
                   @@ [zero_division |-> array_max(tg.image) - array_min(tg.image) = 0,
                       out |-> [k \in DOMAIN tg.image |->
                                  quantize(min_max_scale(tg.image)[k], tg.site.new_min,
                                           tg.site.new_max, tg.site.complement, cast)]]
    /\ UNCHANGED <<rz, ed, gp, qt, pf>>

\* The brighten-ratio division of __call__ for an intensity below the target.
BrightenRatio ==
    /\ tg.pc = "call"
    /\ tg.kind = "brighten"
    /\ tg' = [tg EXCEPT !.pc = "done"]
                @@ [zero_division |-> tg.texture_intensity[1] = 0,
                    brighten_ratio |-> brighten_ratio(tg.texture_intensity)]
    /\ UNCHANGED <<rz, ed, gp, qt, pf>>

NormalizeNext ==
    \/ Normalize
    \/ BrightenRatio

SpecNormalize == NormalizeInit /\ [][NormalizeNext]_vars

\* C11: no division of the core meets a zero denominator: a uniform image
\* entering a min-max normalisation and an average intensity of 0 entering
\* the brighten ratio are guarded, and the zero-range case leaves the image
\* as it is.
C11_DivisionsGuarded ==
    tg.pc = "done" =>
        /\ ~tg.zero_division
        /\ (tg.kind = "normalize" /\ array_max(tg.image) = array_min(tg.image)) =>
              tg.out = tg.image

(***************************************************************************)
(* TextureGenerator.generate_FFT_grid: the accumulation of the outer       *)
(* passes into the uint8 array wave_grid_output.                           *)
(***************************************************************************)
\* Pixels of the grid.
GridPixels == 2

\* The f_iterations tuples the generators pass (lines 233, 261, 303, 336).
FIterations == { <<1, 1>>, <<3, 5>> }

\* The real parts of the inverse transform of one pass, as levels.
WaveGrids == [1 .. GridPixels -> Levels]

\* a += b on dtype uint8: numpy keeps the array's dtype, the sum wraps.
uint8_add(a, b) == (a + b) % 256

FFTGridInit ==
    /\ \E f_iterations \in FIterations :
          tg = [pc |-> "call", kind |-> "generate_FFT_grid", f_iterations |-> f_iterations]
    /\ rz = Idle /\ ed = Idle /\ gp = Idle /\ qt = Idle /\ pf = Idle

\* Lines 399-401: the zeroed uint8 output and the number of outer passes.
\* total is the arithmetic sum of the contributions, kept beside the array.
FFTGridBegin ==
    /\ tg.pc = "call"
    /\ tg.kind = "generate_FFT_grid"
    /\ \E passes \in tg.f_iterations[1] .. tg.f_iterations[2] :
          tg' = [tg EXCEPT !.pc = "loop"]
                  @@ [passes |-> passes, i |-> 0,
                      wave_grid_output |-> [k \in 1 .. GridPixels |-> 0],
                      total |-> [k \in 1 .. GridPixels |-> 0]]
    /\ UNCHANGED <<rz, ed, gp, qt, pf>>

\* Lines 401-431: one outer pass: the real part is scaled to 0-1, converted
\* with np.uint8(new_wave_grid * 255) and added into the output.
FFTGridPass ==
    /\ tg.pc = "loop"
    /\ tg.kind = "generate_FFT_grid"
    /\ tg.i < tg.passes
    /\ \E real \in WaveGrids, cast \in NanCasts :
       \E new_wave_grid \in { [k \in 1 .. GridPixels |->
                                 quantize(min_max_scale(real)[k], 0, 255, FALSE, cast)] } :
          tg' = [tg EXCEPT !.i = @ + 1,
                           !.wave_grid_output =
                               [k \in 1 .. GridPixels |-> uint8_add(@[k], new_wave_grid[k])],
                           !.total = [k \in 1 .. GridPixels |-> @[k] + new_wave_grid[k]]]
    /\ UNCHANGED <<rz, ed, gp, qt, pf>>

\* Line 434: return wave_grid_output
FFTGridReturn ==
    /\ tg.pc = "loop"
    /\ tg.kind = "generate_FFT_grid"
    /\ tg.i = tg.passes
    /\ tg' = [tg EXCEPT !.pc = "done"]
    /\ UNCHANGED <<rz, ed, gp, qt, pf>>

FFTGridNext ==
    \/ FFTGridBegin
    \/ FFTGridPass
    \/ FFTGridReturn

SpecFFTGrid == FFTGridInit /\ [][FFTGridNext]_vars

\* C18: generate_FFT_grid returns at every pixel the arithmetic sum of the
\* 8-bit contributions of its outer passes, neither clamped nor wrapped.
C18_OutputIsArithmeticSum ==
    (tg.pc = "done" /\ tg.kind = "generate_FFT_grid") =>
        \A k \in 1 .. GridPixels : tg.wave_grid_output[k] = tg.total[k]

(***************************************************************************)
(* TextureGenerator.generate_strange_texture: the per-pixel rule and the   *)
(* parallel loop.  The routine is compiled with parallel=True: the outer   *)
(* prange hands its rows to worker threads, the inner prange runs as a     *)
(* plain range inside the row, and random.randint / random.uniform read    *)
(* and advance the generator state of the thread that runs them.           *)
(***************************************************************************)
\* Shapes <<oysize, oxsize>> of the texture.
StrangeShapes == { <<2, 2>> }

\* Worker threads of the parallel loop.
Threads == {1, 2}

\* Generator states a thread can start the loop in (positions in the stream).
Seeds == 0 .. 9

\* The values drawn for t_random and for each of m_random: doubles whose
\* products with 80.0 and 10.0 are exact.
TRandoms == { <<0, 1>>, <<1, 4>> }

MRandoms == { <<0, 1>>, <<1, 4>>, <<5, 2>>, <<11, 2>> }

\* background_value = random.uniform(0.04, 0.11)
BackgroundValues == { <<3, 40>> }

\* The generator: its output at stream position p, as random.randint(1, 10)
\* and as random.random() read it.
randint_at(p) == (p % 10) + 1

random_at(p) == IF p % 2 = 0 THEN <<0, 1>> ELSE <<1, 2>>

\* a ^ b on non-negative ints
RECURSIVE bit_xor(_, _)
bit_xor(a, b) ==
    IF a = 0 /\ b = 0 THEN 0
    ELSE (((a % 2) + (b % 2)) % 2) + 2 * bit_xor(a \div 2, b \div 2)

\* int(c + t_random * 80.0 + m * 10.0)
offset_coordinate(c, t_random, m) ==
    LET f == FAdd(<<c, 1>>, FAdd(FMul(t_random, <<80, 1>>), FMul(m, <<10, 1>>)))
    IN  f[1] \div f[2]

\* Line 104: value of the pixel (y, x).
pixel_value(y, x, t_random, m_random) ==
    bit_xor(offset_coordinate(x, t_random, m_random[1]),
            offset_coordinate(y, t_random, m_random[2]))

\* int(np.floor(np.sqrt(float(value))))
floor_sqrt(value) == CHOOSE r \in 0 .. value : r * r <= value /\ (r + 1) * (r + 1) > value

inclusive_stop(value) == floor_sqrt(value) + 1

\* A stop that lets the loop reach the value itself.
value_stop(value) == value + 1

\* The stop of range(3, stop, step) at line 112.
range_stop(value) == floor_sqrt(value)

\* Lines 112-114: for i in range(i, stop, step): if value % i == 0: color = background
RECURSIVE divisor_loop(_, _, _, _, _)
divisor_loop(i, stop, step, value, color) ==
    IF i >= stop THEN color
    ELSE divisor_loop(i + step, stop, step, value,
                      IF value % i = 0 THEN "background" ELSE color)

\* Lines 107-114: the base color of a pixel of value value with stride step.
base_color(value, step) ==
    LET c0 == "one"
        c1 == IF value <= 1 THEN "background" ELSE c0
        c2 == IF value % 2 = 0 /\ value > 2 THEN "background" ELSE c1
    IN  divisor_loop(3, range_stop(value), step, value, c2)

\* Lines 104-124 for one pixel, run by a thread whose generator stands at
\* position p: one randint for the stride, three uniforms for the channels.
strange_pixel(y, x, t_random, m_random, background_value, p) ==
    LET value == pixel_value(y, x, t_random, m_random)
        step == randint_at(p)
        color == base_color(value, step)
        c == IF color = "one" THEN <<1, 1>> ELSE background_value
        channel(q) == LET u == uniform(<<1, 100>>, <<3, 1>>, random_at(q))
                      IN  FMul(c, <<u[2], u[1]>>)
    IN  [value |-> value, step |-> step, color |-> color,
         new_color |-> <<channel(p + 1), channel(p + 2), channel(p + 3)>>]

\* The cells of the output array; a cell not yet written holds zeros.
Cells(oysize, oxsize) == (0 .. oysize - 1) \X (0 .. oxsize - 1)

ZeroCell == [value |-> -1, step |-> 0, color |-> "zero", new_color |-> <<<<0, 1>>, <<0, 1>>, <<0, 1>>>>]

NoRow == <<-1, -1>>

StrangeInit ==
    /\ \E sh \in StrangeShapes, gen \in [Threads -> Seeds] :
          tg = [pc |-> "call", kind |-> "generate_strange_texture",
                oysize |-> sh[1], oxsize |-> sh[2], gen |-> gen, seeds |-> gen]
    /\ rz = Idle /\ ed = Idle /\ gp = Idle /\ qt = Idle /\ pf = Idle

\* Lines 90-97: the call-level draws and the zeroed output array.
StrangeBegin ==
    /\ tg.pc = "call"
    /\ tg.kind = "generate_strange_texture"
    /\ \E background_value \in BackgroundValues, t_random \in TRandoms,
          m0 \in MRandoms, m1 \in MRandoms :
          tg' = [tg EXCEPT !.pc = "loop"]
                  @@ [background_value |-> background_value,
                      t_random |-> t_random,
                      m_random |-> <<m0, m1>>,
                      rows |-> 0 .. tg.oysize - 1,
                      at |-> [th \in Threads |-> NoRow],
                      image_strange_texture |-> [c \in Cells(tg.oysize, tg.oxsize) |-> ZeroCell],
                      writes |-> [c \in Cells(tg.oysize, tg.oxsize) |-> 0]]
    /\ UNCHANGED <<rz, ed, gp, qt, pf>>

\* Line 100: a free worker thread is handed a row of the outer prange.
StrangeTakeRow ==
    /\ tg.pc = "loop"
    /\ tg.kind = "generate_strange_texture"
    /\ \E th \in Threads, y \in tg.rows :
          /\ tg.at[th] = NoRow
          /\ tg' = [tg EXCEPT !.rows = @ \ {y}, !.at[th] = <<y, 0>>]
    /\ UNCHANGED <<rz, ed, gp, qt, pf>>

\* Lines 101-124: a thread runs the iteration (y, x) of its row.
StrangePixel ==
    /\ tg.pc = "loop"
    /\ tg.kind = "generate_strange_texture"
    /\ \E th \in Threads :
          /\ tg.at[th] # NoRow
          /\ LET y == tg.at[th][1]
                 x == tg.at[th][2]
             IN  tg' = [tg EXCEPT
                          !.image_strange_texture[<<y, x>>] =
                              strange_pixel(y, x, tg.t_random, tg.m_random,
                                            tg.background_value, tg.gen[th]),
                          !.writes[<<y, x>>] = @ + 1,
                          !.gen[th] = @ + 4,
                          !.at[th] = IF x + 1 < tg.oxsize THEN <<y, x + 1>> ELSE NoRow]
    /\ UNCHANGED <<rz, ed, gp, qt, pf>>

\* Lines 127-129: the loop is over; np.rot90 turns the array k times.
StrangeReturn ==
    /\ tg.pc = "loop"
    /\ tg.kind = "generate_strange_texture"
    /\ tg.rows = {}
    /\ \A th \in Threads : tg.at[th] = NoRow
    /\ \E k \in 0 .. 3 :
          tg' = [tg EXCEPT !.pc = "done"] @@ [rotations |-> k]
    /\ UNCHANGED <<rz, ed, gp, qt, pf>>

StrangeNext ==
    \/ StrangeBegin
    \/ StrangeTakeRow
    \/ StrangePixel
    \/ StrangeReturn

SpecStrange == StrangeInit /\ [][StrangeNext]_vars

\* C19: a pixel of value v and stride s gets the background constant iff
\* v <= 1, or v is even and v > 2, or some i in {3, 3+s, 3+2s, ...} with
\* i < floor(sqrt(v)) divides v; otherwise its base color stays 1.0; the
\* classification depends on (v, s) only.
C19_PixelRule ==
    (tg.pc \in {"loop", "done"} /\ tg.kind = "generate_strange_texture") =>
        \A c \in DOMAIN tg.image_strange_texture :
            LET cell == tg.image_strange_texture[c]
                v == cell.value
                s == cell.step
            IN  tg.writes[c] > 0 =>
                  /\ v = pixel_value(c[1], c[2], tg.t_random, tg.m_random)
                  /\ s \in 1 .. 10
                  /\ cell.color \in {"one", "background"}
                  /\ cell.color = "background" <=>
                        \/ v <= 1
                        \/ v % 2 = 0 /\ v > 2
                        \/ \E i \in 3 .. v :
                              /\ (i - 3) % s = 0
                              /\ (i + 1) * (i + 1) <= v
                              /\ v % i = 0

C19_Witness ==
    /\ tg.pc = "done"
    /\ tg.kind = "generate_strange_texture"
    /\ tg.image_strange_texture[<<0, 0>>].value = 55
    /\ tg.image_strange_texture[<<0, 0>>].step = 3
    /\ tg.image_strange_texture[<<0, 0>>].color = "one"
    /\ tg.image_strange_texture[<<1, 1>>].value = 57
    /\ tg.image_strange_texture[<<1, 1>>].color = "background"

\* C20: every iteration (y, x) of the parallel loop writes only its cell,
\* once, and its draws go through no generator state shared with other
\* iterations, so that the value written to a cell does not depend on the
\* order in which the iterations run: whatever the schedule, the array is
\* the one the iterations give when run one after the other in row-major
\* order from the generator state the loop was entered with.
C20_IterationsIndependent ==
    (tg.pc = "done" /\ tg.kind = "generate_strange_texture") =>
        \A c \in DOMAIN tg.image_strange_texture :
            /\ tg.writes[c] = 1
            /\ tg.image_strange_texture[c]
                 = strange_pixel(c[1], c[2], tg.t_random, tg.m_random, tg.background_value,
                                 tg.seeds[1] + 4 * (c[1] * tg.oxsize + c[2]))

\* C25: whatever the stride s in 1..10, a pixel whose value is 2 or an odd
\* prime keeps the base color 1.0 (the stride can only let composite values
\* stay bright), and a pixel whose value is <= 1 or even and > 2 gets the
\* background constant.
C25_PrimesNeverBackground ==
    (tg.pc \in {"loop", "done"} /\ tg.kind = "generate_strange_texture") =>
        \A c \in DOMAIN tg.image_strange_texture :
            LET cell == tg.image_strange_texture[c]
                v == cell.value
                prime == v >= 2 /\ \A d \in 2 .. v - 1 : v % d # 0
            IN  tg.writes[c] > 0 =>
                  /\ cell.step \in 1 .. 10
                  /\ prime => cell.color = "one"
                  /\ (v <= 1 \/ (v % 2 = 0 /\ v > 2)) => cell.color = "background"

C25_Witness ==
    /\ tg.pc = "done"
    /\ tg.kind = "generate_strange_texture"
    /\ tg.image_strange_texture[<<0, 0>>].value = 53
    /\ tg.image_strange_texture[<<0, 0>>].color = "one"
    /\ tg.image_strange_texture[<<0, 1>>].value = 52
    /\ tg.image_strange_texture[<<0, 1>>].color = "background"
    /\ tg.image_strange_texture[<<1, 1>>].value = 59
    /\ tg.image_strange_texture[<<1, 1>>].step = 1
    /\ tg.image_strange_texture[<<1, 1>>].color = "one"

(***************************************************************************)
(* TextureGenerator.generate_normal_texture: the noise-accumulation loop.  *)
(***************************************************************************)
\* Largest xsize and ysize, largest turbulence, and the count at which the
\* record of the passes made stops growing.
MaxSide == 4

MaxTurbulence == 3

MaxPasses == 3

\* ratio = (ratio // turbulence) or 1
next_ratio(ratio, turbulence) ==
    IF ratio \div turbulence = 0 THEN 1 ELSE ratio \div turbulence

NormalInit ==
    /\ \E xsize \in 1 .. MaxSide, ysize \in 1 .. MaxSide, turbulence \in 1 .. MaxTurbulence :
          tg = [pc |-> "call", kind |-> "generate_normal_texture",
                xsize |-> xsize, ysize |-> ysize, turbulence |-> turbulence]
    /\ rz = Idle /\ ed = Idle /\ gp = Idle /\ qt = Idle /\ pf = Idle

\* Lines 49-50: the filled array and ratio = min(xsize, ysize).  passes
\* counts the loop bodies executed (up to MaxPasses); noise is the parity of
\* the noise fields added into image_output so far.
NormalBegin ==
    /\ tg.pc = "call"
    /\ tg.kind = "generate_normal_texture"
    /\ tg' = [tg EXCEPT !.pc = "loop"]
               @@ [ratio |-> IF tg.xsize < tg.ysize THEN tg.xsize ELSE tg.ysize,
                   passes |-> 0, noise |-> 0]
    /\ UNCHANGED <<rz, ed, gp, qt, pf>>

\* Lines 51-58: one pass of "while ratio != 1".
NormalPass ==
    /\ tg.pc = "loop"
    /\ tg.kind = "generate_normal_texture"
    /\ tg.ratio # 1
    /\ tg' = [tg EXCEPT !.ratio = next_ratio(@, tg.turbulence),
                        !.passes = IF @ < MaxPasses THEN @ + 1 ELSE @,
                        !.noise = 1 - @]
    /\ UNCHANGED <<rz, ed, gp, qt, pf>>

\* Lines 59-74: the loop is left; clip, normalisation and return.
NormalLeave ==
    /\ tg.pc = "loop"
    /\ tg.kind = "generate_normal_texture"
    /\ tg.ratio = 1
    /\ tg' = [tg EXCEPT !.pc = "done"]
    /\ UNCHANGED <<rz, ed, gp, qt, pf>>

NormalNext ==
    \/ NormalBegin
    \/ NormalPass
    \/ NormalLeave

\* The interpreter runs the routine's next statement.
SpecNormalLoop == NormalInit /\ [][NormalNext]_vars /\ WF_vars(NormalNext)

\* C24: for every xsize, ysize >= 1 and turbulence >= 1 the loop of
\* generate_normal_texture ends (ratio reaches 1), and it has made at
\* least one pass when the normalisation is reached.
C24_NoiseLoopTerminates ==
    /\ <>(tg.pc = "done")
    /\ [](tg.pc = "done" => tg.passes >= 1)

=============================================================================
